---- MODULE Spec2Model ----
(***************************************************************************)
(* Span-based rich text formatting: TextFormat, TextSpan and FormatSpans   *)
(* of core/src/html/text_format.rs, with the lowering of an XML tree of    *)
(* core/src/xml/tree.rs into a span table, and the object property slot    *)
(* of core/src/avm1/property.rs.                                           *)
(*                                                                         *)
(* State.  text, spans and default_format are the fields of one            *)
(* FormatSpans; panicked records that a call on it has panicked; property  *)
(* is one Property slot.                                                   *)
(*                                                                         *)
(* Conventions.  Option<T> is a sequence of length 0 (None) or 1 (Some).   *)
(* f64 values are integers, with NaN the one value that is unequal to      *)
(* itself.  A String is a sequence of bytes; "a" is a one-byte character   *)
(* and "E1","E2" are the two bytes of one two-byte character.  Vec indices *)
(* are 0-based as in the source; a Vec is a 1-based TLA+ sequence, so      *)
(* element i of the source is s[i + 1] here.                               *)
(***************************************************************************)
EXTENDS Integers, Sequences, FiniteSets, TLC

VARIABLES text, spans, default_format, panicked, property

vars == <<text, spans, default_format, panicked, property>>

(***************************************************************************)
(* Bounds of the model.                                                    *)
(***************************************************************************)
MaxLen == 3

\* positions passed as from / to: every index of the longest text, its end,
\* and one position beyond it
Pos == 0 .. (MaxLen + 1)

(***************************************************************************)
(* Option and f64.                                                         *)
(***************************************************************************)
None == <<>>

Some(v) == <<v>>

IsSome(o) == Len(o) = 1

Unwrap(o) == o[1]

NaN == -1

\* f64 == f64
F64Eq(a, b) == a # NaN /\ b # NaN /\ a = b

\* Option<f64> == Option<f64>
OptF64Eq(a, b) ==
    IF IsSome(a) /\ IsSome(b) THEN F64Eq(Unwrap(a), Unwrap(b))
    ELSE ~IsSome(a) /\ ~IsSome(b)

\* Vec<f64> == Vec<f64>
VecF64Eq(a, b) ==
    Len(a) = Len(b) /\ \A i \in 1 .. Len(a) : F64Eq(a[i], b[i])

\* Option<Vec<f64>> == Option<Vec<f64>>
OptVecF64Eq(a, b) ==
    IF IsSome(a) /\ IsSome(b) THEN VecF64Eq(Unwrap(a), Unwrap(b))
    ELSE ~IsSome(a) /\ ~IsSome(b)

Min(a, b) == IF a < b THEN a ELSE b

\* usize::saturating_sub
SaturatingSub(a, b) == IF a < b THEN 0 ELSE a - b

(***************************************************************************)
(* TextFormat                                                              *)
(***************************************************************************)
Fields ==
    {"font", "size", "color", "align", "bold", "italic", "underline",
     "left_margin", "right_margin", "indent", "block_indent", "kerning",
     "leading", "letter_spacing", "tab_stops", "bullet", "url", "target"}

\* impl Default for TextFormat
TextFormat_default ==
    [font |-> None, size |-> None, color |-> None, align |-> None,
     bold |-> None, italic |-> None, underline |-> None,
     left_margin |-> None, right_margin |-> None, indent |-> None,
     block_indent |-> None, kerning |-> None, leading |-> None,
     letter_spacing |-> None, tab_stops |-> None, bullet |-> None,
     url |-> None, target |-> None]

\* TextFormat::merge_matching_properties
merge_matching_properties(self, rhs) ==
    [font |-> IF self.font = rhs.font THEN self.font ELSE None,
     size |-> IF OptF64Eq(self.size, rhs.size) THEN self.size ELSE None,
     color |-> IF self.color = rhs.color THEN self.color ELSE None,
     align |-> IF self.align = rhs.align THEN self.align ELSE None,
     bold |-> IF self.bold = rhs.bold THEN self.bold ELSE None,
     italic |-> IF self.italic = rhs.italic THEN self.italic ELSE None,
     underline |->
        IF self.underline = rhs.underline THEN self.underline ELSE None,
     left_margin |->
        IF OptF64Eq(self.left_margin, rhs.left_margin)
        THEN self.left_margin ELSE None,
     right_margin |->
        IF OptF64Eq(self.right_margin, rhs.right_margin)
        THEN self.right_margin ELSE None,
     indent |->
        IF OptF64Eq(self.indent, rhs.indent) THEN self.indent ELSE None,
     block_indent |->
        IF OptF64Eq(self.block_indent, rhs.block_indent)
        THEN self.block_indent ELSE None,
     kerning |-> IF self.kerning = rhs.kerning THEN self.kerning ELSE None,
     leading |->
        IF OptF64Eq(self.leading, rhs.leading) THEN self.leading ELSE None,
     letter_spacing |->
        IF OptF64Eq(self.letter_spacing, rhs.letter_spacing)
        THEN self.letter_spacing ELSE None,
     tab_stops |->
        IF OptVecF64Eq(self.tab_stops, rhs.tab_stops)
        THEN self.tab_stops ELSE None,
     bullet |-> IF self.bullet = rhs.bullet THEN self.bullet ELSE None,
     url |-> IF self.url = rhs.url THEN self.url ELSE None,
     target |-> IF self.target = rhs.target THEN self.target ELSE None]

(***************************************************************************)
(* TextSpan                                                                *)
(***************************************************************************)
\* impl Default for TextSpan
TextSpan_default ==
    [span_length |-> 0,
     font |-> "",
     size |-> 12,
     color |-> [r |-> 0, g |-> 0, b |-> 0, a |-> 0],
     align |-> "Left",
     bold |-> FALSE,
     italic |-> FALSE,
     underline |-> FALSE,
     left_margin |-> 0,
     right_margin |-> 0,
     indent |-> 0,
     block_indent |-> 0,
     kerning |-> FALSE,
     leading |-> 0,
     letter_spacing |-> 0,
     tab_stops |-> <<>>,
     bullet |-> FALSE,
     url |-> "",
     target |-> ""]

\* TextSpan::with_length
with_length(length) == [TextSpan_default EXCEPT !.span_length = length]

\* TextSpan::can_merge
can_merge(self, rhs) ==
    /\ self.font = rhs.font
    /\ F64Eq(self.size, rhs.size)
    /\ self.color = rhs.color
    /\ self.align = rhs.align
    /\ self.bold = rhs.bold
    /\ self.italic = rhs.italic
    /\ self.underline = rhs.underline
    /\ F64Eq(self.left_margin, rhs.left_margin)
    /\ F64Eq(self.right_margin, rhs.right_margin)
    /\ F64Eq(self.indent, rhs.indent)
    /\ F64Eq(self.block_indent, rhs.block_indent)
    /\ self.kerning = rhs.kerning
    /\ F64Eq(self.leading, rhs.leading)
    /\ F64Eq(self.letter_spacing, rhs.letter_spacing)
    /\ VecF64Eq(self.tab_stops, rhs.tab_stops)
    /\ self.bullet = rhs.bullet
    /\ self.url = rhs.url
    /\ self.target = rhs.target

\* split_at that refuses only a point past the end: a point equal to the
\* length splits off an empty span
split_at_allows_end(self, split_point) ==
    IF self.span_length < split_point \/ split_point = 0
    THEN [self |-> self, ret |-> None]
    ELSE [self |-> [self EXCEPT !.span_length = split_point],
          ret |-> Some([self EXCEPT
                          !.span_length = self.span_length - split_point])]

\* TextSpan::split_at: the span after the call and the returned Option<Self>
split_at(self, split_point) ==
    IF self.span_length <= split_point \/ split_point = 0
    THEN [self |-> self, ret |-> None]
    ELSE [self |-> [self EXCEPT !.span_length = split_point],
          ret |-> Some([self EXCEPT
                          !.span_length = self.span_length - split_point])]

\* TextSpan::merge: the span after the call and the returned Option<Self>
merge(self, rhs) ==
    IF ~can_merge(self, rhs)
    THEN [self |-> self, ret |-> Some(rhs)]
    ELSE [self |-> [self EXCEPT !.span_length = @ + rhs.span_length],
          ret |-> None]

\* set_text_format with unwrap_or_default: a field the format leaves unset is
\* reset to the neutral value instead of kept
span_set_text_format_resets(self, tf) ==
    [f \in DOMAIN self |->
       IF f = "span_length" THEN self.span_length
       ELSE IF IsSome(tf[f]) THEN Unwrap(tf[f]) ELSE TextSpan_default[f]]

\* TextSpan::set_text_format
span_set_text_format(self, tf) ==
    [span_length |-> self.span_length,
     font |-> IF IsSome(tf.font) THEN Unwrap(tf.font) ELSE self.font,
     size |-> IF IsSome(tf.size) THEN Unwrap(tf.size) ELSE self.size,
     color |-> IF IsSome(tf.color) THEN Unwrap(tf.color) ELSE self.color,
     align |-> IF IsSome(tf.align) THEN Unwrap(tf.align) ELSE self.align,
     bold |-> IF IsSome(tf.bold) THEN Unwrap(tf.bold) ELSE self.bold,
     italic |-> IF IsSome(tf.italic) THEN Unwrap(tf.italic) ELSE self.italic,
     underline |->
        IF IsSome(tf.underline) THEN Unwrap(tf.underline) ELSE self.underline,
     left_margin |->
        IF IsSome(tf.left_margin) THEN Unwrap(tf.left_margin)
        ELSE self.left_margin,
     right_margin |->
        IF IsSome(tf.right_margin) THEN Unwrap(tf.right_margin)
        ELSE self.right_margin,
     indent |-> IF IsSome(tf.indent) THEN Unwrap(tf.indent) ELSE self.indent,
     block_indent |->
        IF IsSome(tf.block_indent) THEN Unwrap(tf.block_indent)
        ELSE self.block_indent,
     kerning |->
        IF IsSome(tf.kerning) THEN Unwrap(tf.kerning) ELSE self.kerning,
     leading |->
        IF IsSome(tf.leading) THEN Unwrap(tf.leading) ELSE self.leading,
     letter_spacing |->
        IF IsSome(tf.letter_spacing) THEN Unwrap(tf.letter_spacing)
        ELSE self.letter_spacing,
     tab_stops |->
        IF IsSome(tf.tab_stops) THEN Unwrap(tf.tab_stops) ELSE self.tab_stops,
     bullet |-> IF IsSome(tf.bullet) THEN Unwrap(tf.bullet) ELSE self.bullet,
     url |-> IF IsSome(tf.url) THEN Unwrap(tf.url) ELSE self.url,
     target |-> IF IsSome(tf.target) THEN Unwrap(tf.target) ELSE self.target]

\* TextSpan::with_length_and_format
with_length_and_format(length, tf) ==
    span_set_text_format(with_length(length), tf)

\* TextSpan::get_text_format; the bullet field is read from self.bold
span_get_text_format(self) ==
    [font |-> Some(self.font),
     size |-> Some(self.size),
     color |-> Some(self.color),
     align |-> Some(self.align),
     bold |-> Some(self.bold),
     italic |-> Some(self.italic),
     underline |-> Some(self.underline),
     left_margin |-> Some(self.left_margin),
     right_margin |-> Some(self.right_margin),
     indent |-> Some(self.indent),
     block_indent |-> Some(self.block_indent),
     kerning |-> Some(self.kerning),
     leading |-> Some(self.leading),
     letter_spacing |-> Some(self.letter_spacing),
     tab_stops |-> Some(self.tab_stops),
     bullet |-> Some(self.bold),
     url |-> Some(self.url),
     target |-> Some(self.target)]

(***************************************************************************)
(* Vec and String helpers.                                                 *)
(***************************************************************************)
\* Vec::insert(index, element)
VecInsert(v, index, element) ==
    SubSeq(v, 1, index) \o <<element>> \o SubSeq(v, index + 1, Len(v))

\* Vec::remove(index)
VecRemove(v, index) == SubSeq(v, 1, index) \o SubSeq(v, index + 2, Len(v))

\* Vec::drain(start..end), defined for start <= end <= len
VecDrain(v, start, end) == SubSeq(v, 1, start) \o SubSeq(v, end + 1, Len(v))

\* str::is_char_boundary
is_char_boundary(s, index) ==
    \/ index = 0
    \/ index = Len(s)
    \/ index < Len(s) /\ s[index + 1] # "E2"

\* str::get(start..end)
StrGet(s, start, end) ==
    IF /\ start <= end
       /\ end <= Len(s)
       /\ is_char_boundary(s, start)
       /\ is_char_boundary(s, end)
    THEN Some(SubSeq(s, start + 1, end))
    ELSE None

(***************************************************************************)
(* FormatSpans                                                             *)
(***************************************************************************)
\* FormatSpans::from_str_and_format
from_str_and_format(t, df) ==
    [text |-> t,
     spans |-> <<span_set_text_format(with_length(Len(t)), df)>>,
     default_format |-> df]

\* FormatSpans::from_str_and_spans
from_str_and_spans(t, sp) ==
    [text |-> t, spans |-> sp, default_format |-> TextFormat_default]

RECURSIVE resolve_loop_inclusive(_, _, _, _)
\* the for loop with the end of a span counted as inside it
resolve_loop_inclusive(sp, search_pos, index, position) ==
    IF index >= Len(sp) THEN None
    ELSE IF search_pos <= position + sp[index + 1].span_length
         THEN Some(<<index, search_pos - position>>)
         ELSE resolve_loop_inclusive(sp, search_pos, index + 1,
                                     position + sp[index + 1].span_length)

RECURSIVE resolve_loop(_, _, _, _)
\* the for loop of resolve_position_as_span, at element `index`
resolve_loop(sp, search_pos, index, position) ==
    IF index >= Len(sp) THEN None
    ELSE IF search_pos < position + sp[index + 1].span_length
         THEN Some(<<index, search_pos - position>>)
         ELSE resolve_loop(sp, search_pos, index + 1,
                           position + sp[index + 1].span_length)

\* FormatSpans::resolve_position_as_span
resolve_position_as_span(sp, search_pos) == resolve_loop(sp, search_pos, 0, 0)

\* ensure_span_break_at with the second half built afresh instead of cloned:
\* the text after the break loses its format
ensure_span_break_at_plain_tail(sp, search_pos) ==
    LET r == resolve_position_as_span(sp, search_pos) IN
    IF IsSome(r)
    THEN LET first_span_pos == Unwrap(r)[1]
             break_index == Unwrap(r)[2]
             first_span == sp[first_span_pos + 1]
             second_span == with_length(first_span.span_length - break_index)
         IN  IF break_index = 0
             THEN [spans |-> sp, ret |-> Some(first_span_pos)]
             ELSE [spans |->
                      VecInsert(
                        [sp EXCEPT
                           ![first_span_pos + 1].span_length = break_index],
                        first_span_pos + 1, second_span),
                   ret |-> Some(first_span_pos + 1)]
    ELSE [spans |-> sp, ret |-> None]

\* ensure_span_break_at without the break_index == 0 shortcut: a span is
\* split even when the position is already at its start
ensure_span_break_at_always_split(sp, search_pos) ==
    LET r == resolve_position_as_span(sp, search_pos) IN
    IF IsSome(r)
    THEN LET first_span_pos == Unwrap(r)[1]
             break_index == Unwrap(r)[2]
             first_span == sp[first_span_pos + 1]
             second_span ==
                 [first_span EXCEPT
                    !.span_length = first_span.span_length - break_index]
         IN  [spans |->
                 VecInsert(
                   [sp EXCEPT
                      ![first_span_pos + 1].span_length = break_index],
                   first_span_pos + 1, second_span),
              ret |-> Some(first_span_pos + 1)]
    ELSE [spans |-> sp, ret |-> None]

\* ensure_span_break_at with a position past the end treated as the end: an
\* empty span is appended and its index returned
ensure_span_break_at_appends(sp, search_pos) ==
    LET r == resolve_position_as_span(sp, search_pos) IN
    IF IsSome(r)
    THEN LET first_span_pos == Unwrap(r)[1]
             break_index == Unwrap(r)[2]
             first_span == sp[first_span_pos + 1]
             second_span ==
                 [first_span EXCEPT
                    !.span_length = first_span.span_length - break_index]
         IN  IF break_index = 0
             THEN [spans |-> sp, ret |-> Some(first_span_pos)]
             ELSE [spans |->
                      VecInsert(
                        [sp EXCEPT
                           ![first_span_pos + 1].span_length = break_index],
                        first_span_pos + 1, second_span),
                   ret |-> Some(first_span_pos + 1)]
    ELSE [spans |-> Append(sp, with_length(0)), ret |-> Some(Len(sp))]

\* FormatSpans::ensure_span_break_at: the span list after the call and the
\* returned Option<usize>
ensure_span_break_at(sp, search_pos) ==
    LET r == resolve_position_as_span(sp, search_pos) IN
    IF IsSome(r)
    THEN LET first_span_pos == Unwrap(r)[1]
             break_index == Unwrap(r)[2]
             first_span == sp[first_span_pos + 1]
             second_span ==
                 [first_span EXCEPT
                    !.span_length = first_span.span_length - break_index]
         IN  IF break_index = 0
             THEN [spans |-> sp, ret |-> Some(first_span_pos)]
             ELSE [spans |->
                      VecInsert(
                        [sp EXCEPT
                           ![first_span_pos + 1].span_length = break_index],
                        first_span_pos + 1, second_span),
                   ret |-> Some(first_span_pos + 1)]
    ELSE [spans |-> sp, ret |-> None]

\* get_span_boundaries with the end resolved at `to` itself instead of at
\* to - 1: the span that starts at `to` is taken into the range
get_span_boundaries_end_at_to(sp, from, to) ==
    LET rf == resolve_position_as_span(sp, from)
        rt == resolve_position_as_span(sp, to)
        start_pos == IF IsSome(rf) THEN Unwrap(rf)[1] ELSE 0
        end_pos ==
            Min(IF IsSome(rt) THEN Unwrap(rt)[1] + 1 ELSE Len(sp), Len(sp))
    IN  <<start_pos, end_pos>>

\* get_span_boundaries with the end index taken as the index of the span that
\* holds to - 1, without the + 1 that makes the range half-open
get_span_boundaries_closed_end(sp, from, to) ==
    LET rf == resolve_position_as_span(sp, from)
        rt == resolve_position_as_span(sp, SaturatingSub(to, 1))
        start_pos == IF IsSome(rf) THEN Unwrap(rf)[1] ELSE 0
        end_pos ==
            Min(IF IsSome(rt) THEN Unwrap(rt)[1] ELSE Len(sp), Len(sp))
    IN  <<start_pos, end_pos>>

\* FormatSpans::get_span_boundaries
get_span_boundaries(sp, from, to) ==
    LET rf == resolve_position_as_span(sp, from)
        rt == resolve_position_as_span(sp, SaturatingSub(to, 1))
        start_pos == IF IsSome(rf) THEN Unwrap(rf)[1] ELSE 0
        end_pos ==
            Min(IF IsSome(rt) THEN Unwrap(rt)[1] + 1 ELSE Len(sp), Len(sp))
    IN  <<start_pos, end_pos>>

RECURSIVE SumLengths(_)
\* the summing loop that opens normalize
SumLengths(sp) ==
    IF sp = <<>> THEN 0 ELSE sp[1].span_length + SumLengths(Tail(sp))

RECURSIVE normalize_trim_pop_only(_, _)
\* the trimming loop without its shrinking branch: the last span is always
\* removed whole
normalize_trim_pop_only(sp, deficiency) ==
    IF deficiency > 0 /\ sp # <<>>
    THEN normalize_trim_pop_only(SubSeq(sp, 1, Len(sp) - 1),
                                 deficiency - sp[Len(sp)].span_length)
    ELSE sp

RECURSIVE normalize_trim(_, _)
\* normalize, Ordering::Greater: the loop that removes the excess from the end
normalize_trim(sp, deficiency) ==
    IF deficiency > 0 /\ sp # <<>>
    THEN LET last == sp[Len(sp)] IN
         IF last.span_length > deficiency
         THEN [sp EXCEPT ![Len(sp)].span_length = @ - deficiency]
         ELSE normalize_trim(SubSeq(sp, 1, Len(sp) - 1),
                             deficiency - last.span_length)
    ELSE sp

\* the reconciliation without its Ordering::Less arm: a shortfall is not padded
normalize_reconcile_no_pad(t, sp, df) ==
    IF SumLengths(sp) > Len(t)
    THEN normalize_trim(sp, SumLengths(sp) - Len(t))
    ELSE sp

\* the reconciliation with a shortfall padded by a neutral span instead of a
\* span of the default format
normalize_reconcile_pad_neutral(t, sp, df) ==
    LET span_length == SumLengths(sp) IN
    IF span_length < Len(t)
    THEN Append(sp, with_length(Len(t) - span_length))
    ELSE IF span_length > Len(t)
         THEN normalize_trim(sp, span_length - Len(t))
         ELSE sp

\* normalize: the length reconciliation (match span_length.cmp(text.len()))
normalize_reconcile(t, sp, df) ==
    LET span_length == SumLengths(sp) IN
    IF span_length < Len(t)
    THEN Append(sp, with_length_and_format(Len(t) - span_length, df))
    ELSE IF span_length > Len(t)
         THEN normalize_trim(sp, span_length - Len(t))
         ELSE sp

\* normalize without the removal of leading null-length spans
normalize_leading_skipped(sp) == sp

RECURSIVE normalize_leading(_)
\* normalize: the loop that removes leading null-length spans
normalize_leading(sp) ==
    IF sp # <<>> /\ sp[1].span_length = 0
    THEN normalize_leading(VecRemove(sp, 0))
    ELSE sp

RECURSIVE normalize_merge_always_advance(_, _)
\* the adjacent-pair loop with i advanced after a merge as well
normalize_merge_always_advance(sp, i) ==
    IF i < SaturatingSub(Len(sp), 1)
    THEN IF can_merge(sp[i + 1], sp[i + 2]) \/ sp[i + 2].span_length = 0
         THEN normalize_merge_always_advance(
                VecRemove(
                  [sp EXCEPT
                     ![i + 1].span_length = @ + sp[i + 2].span_length],
                  i + 1),
                i + 1)
         ELSE normalize_merge_always_advance(sp, i + 1)
    ELSE sp

RECURSIVE normalize_merge_any_pair(_, _)
\* the adjacent-pair loop with every pair merged, whatever the two formats
normalize_merge_any_pair(sp, i) ==
    IF i < SaturatingSub(Len(sp), 1)
    THEN normalize_merge_any_pair(
           VecRemove(
             [sp EXCEPT ![i + 1].span_length = @ + sp[i + 2].span_length],
             i + 1),
           i)
    ELSE sp

RECURSIVE normalize_merge(_, _)
\* normalize: the adjacent-pair loop, at index i
normalize_merge(sp, i) ==
    IF i < SaturatingSub(Len(sp), 1)
    THEN IF can_merge(sp[i + 1], sp[i + 2]) \/ sp[i + 2].span_length = 0
         THEN normalize_merge(
                VecRemove(
                  [sp EXCEPT
                     ![i + 1].span_length = @ + sp[i + 2].span_length],
                  i + 1),
                i)
         ELSE normalize_merge(sp, i + 1)
    ELSE sp

\* FormatSpans::normalize: the span list after the call
normalize(t, sp, df) ==
    LET merged ==
          normalize_merge(normalize_leading(normalize_reconcile(t, sp, df)), 0)
    IN  IF merged = <<>>
        THEN <<with_length_and_format(Len(t), df)>>
        ELSE merged

\* normalize, Ordering::Greater: the condition of the trimming loop
normalize_trim_guard(sp, deficiency) == deficiency > 0 /\ sp # <<>>

\* one iteration of the trimming loop: the spans and the deficiency after it,
\* and whether it left the loop by `break`
normalize_trim_step(sp, deficiency) ==
    LET last == sp[Len(sp)] IN
    IF last.span_length > deficiency
    THEN [spans |-> [sp EXCEPT ![Len(sp)].span_length = @ - deficiency],
          deficiency |-> deficiency, broke |-> TRUE]
    ELSE [spans |-> SubSeq(sp, 1, Len(sp) - 1),
          deficiency |-> deficiency - last.span_length, broke |-> FALSE]

\* normalize: the condition of the loop that removes leading null-length spans
normalize_leading_guard(sp) == sp # <<>> /\ sp[1].span_length = 0

\* one iteration of the loop that removes leading null-length spans
normalize_leading_step(sp) == VecRemove(sp, 0)

\* normalize: the condition of the adjacent-pair loop
normalize_merge_guard(sp, i) == i < SaturatingSub(Len(sp), 1)

\* one iteration of the adjacent-pair loop with the absorbed span left in the
\* list: its length is added to span i but it is not removed
normalize_merge_step_keeps_next(sp, i) ==
    IF can_merge(sp[i + 1], sp[i + 2]) \/ sp[i + 2].span_length = 0
    THEN [spans |->
             [sp EXCEPT ![i + 1].span_length = @ + sp[i + 2].span_length],
          i |-> i]
    ELSE [spans |-> sp, i |-> i + 1]

\* one iteration of the adjacent-pair loop: the spans and i after it
normalize_merge_step(sp, i) ==
    IF can_merge(sp[i + 1], sp[i + 2]) \/ sp[i + 2].span_length = 0
    THEN [spans |->
             VecRemove(
               [sp EXCEPT ![i + 1].span_length = @ + sp[i + 2].span_length],
               i + 1),
          i |-> i]
    ELSE [spans |-> sp, i |-> i + 1]

RECURSIVE merge_span_formats(_, _, _, _)
\* get_text_format: the for loop over spans[from_index .. end_pos)
merge_span_formats(sp, merged_fmt, index, end_pos) ==
    IF index < end_pos
    THEN merge_span_formats(
           sp,
           merge_matching_properties(merged_fmt,
                                     span_get_text_format(sp[index + 1])),
           index + 1, end_pos)
    ELSE merged_fmt

\* FormatSpans::get_text_format
get_text_format(sp, from, to) ==
    LET b == get_span_boundaries(sp, from, to)
        start_pos == b[1]
        end_pos == b[2]
    IN  IF start_pos < Len(sp)
        THEN merge_span_formats(sp, span_get_text_format(sp[start_pos + 1]),
                                start_pos + 1, end_pos)
        ELSE TextFormat_default

\* set_text_format without its closing normalize call
set_text_format_no_normalize(t, sp, df, from, to, fmt) ==
    LET s1 == ensure_span_break_at(sp, from).spans
        s2 == ensure_span_break_at(s1, to).spans
        b == get_span_boundaries(s2, from, to)
    IN  [i \in 1 .. Len(s2) |->
           IF b[1] <= b[2] /\ b[1] < i /\ i <= b[2]
           THEN span_set_text_format(s2[i], fmt)
           ELSE s2[i]]

\* set_text_format without the two ensure_span_break_at calls: the format is
\* applied to the whole of every span that overlaps the range
set_text_format_no_breaks(t, sp, df, from, to, fmt) ==
    LET b == get_span_boundaries(sp, from, to)
        start_pos == b[1]
        end_pos == b[2]
        applied ==
            [i \in 1 .. Len(sp) |->
               IF start_pos <= end_pos /\ start_pos < i /\ i <= end_pos
               THEN span_set_text_format(sp[i], fmt)
               ELSE sp[i]]
    IN  normalize(t, applied, df)

\* FormatSpans::set_text_format: the span list after the call
set_text_format(t, sp, df, from, to, fmt) ==
    LET s1 == ensure_span_break_at(sp, from).spans
        s2 == ensure_span_break_at(s1, to).spans
        b == get_span_boundaries(s2, from, to)
        start_pos == b[1]
        end_pos == b[2]
        applied ==
            [i \in 1 .. Len(s2) |->
               IF start_pos <= end_pos /\ start_pos < i /\ i <= end_pos
               THEN span_set_text_format(s2[i], fmt)
               ELSE s2[i]]
    IN  normalize(t, applied, df)

\* replace_text without its early return for to < from
replace_text_no_guard(t, sp, df, from, to, with) ==
      LET s1 == ensure_span_break_at(sp, from).spans
          s2 == ensure_span_break_at(s1, to).spans
          b == get_span_boundaries(s2, from, to)
          start_pos == b[1]
          end_pos == b[2]
          new_tf ==
              IF end_pos < Len(s2)
              THEN span_get_text_format(s2[end_pos + 1])
              ELSE df
          drain_panics == from < Len(t) /\ start_pos > end_pos
          new_spans ==
              IF from < Len(t)
              THEN VecInsert(VecDrain(s2, start_pos, end_pos), start_pos,
                             with_length_and_format(Len(with), new_tf))
              ELSE Append(sp, with_length_and_format(Len(with), df))
          head == StrGet(t, 0, from)
          tail == StrGet(t, to, Len(t))
          new_string ==
              (IF IsSome(head) THEN Unwrap(head) ELSE t)
              \o with
              \o (IF IsSome(tail) THEN Unwrap(tail) ELSE <<>>)
      IN  IF drain_panics
          THEN [text |-> t, spans |-> s2, panicked |-> TRUE]
          ELSE [text |-> new_string,
                spans |-> normalize(new_string, new_spans, df),
                panicked |-> FALSE]

\* replace_text taking the format of the last span of the removed range when
\* nothing follows the range, instead of the default format
replace_text_inherit_last(t, sp, df, from, to, with) ==
    IF to < from
    THEN [text |-> t, spans |-> sp, panicked |-> FALSE]
    ELSE
      LET s1 == ensure_span_break_at(sp, from).spans
          s2 == ensure_span_break_at(s1, to).spans
          b == get_span_boundaries(s2, from, to)
          start_pos == b[1]
          end_pos == b[2]
          new_tf ==
              IF end_pos < Len(s2)
              THEN span_get_text_format(s2[end_pos + 1])
              ELSE IF end_pos > 0
                   THEN span_get_text_format(s2[end_pos])
                   ELSE df
          drain_panics == from < Len(t) /\ start_pos > end_pos
          new_spans ==
              IF from < Len(t)
              THEN VecInsert(VecDrain(s2, start_pos, end_pos), start_pos,
                             with_length_and_format(Len(with), new_tf))
              ELSE Append(sp, with_length_and_format(Len(with), df))
          head == StrGet(t, 0, from)
          tail == StrGet(t, to, Len(t))
          new_string ==
              (IF IsSome(head) THEN Unwrap(head) ELSE t)
              \o with
              \o (IF IsSome(tail) THEN Unwrap(tail) ELSE <<>>)
      IN  IF drain_panics
          THEN [text |-> t, spans |-> s2, panicked |-> TRUE]
          ELSE [text |-> new_string,
                spans |-> normalize(new_string, new_spans, df),
                panicked |-> FALSE]

\* FormatSpans::replace_text: the text and the span list after the call;
\* panicked is set when Vec::drain is handed a range with start > end
replace_text(t, sp, df, from, to, with) ==
    IF to < from
    THEN [text |-> t, spans |-> sp, panicked |-> FALSE]
    ELSE
      LET s1 == ensure_span_break_at(sp, from).spans
          s2 == ensure_span_break_at(s1, to).spans
          b == get_span_boundaries(s2, from, to)
          start_pos == b[1]
          end_pos == b[2]
          new_tf ==
              IF end_pos < Len(s2)
              THEN span_get_text_format(s2[end_pos + 1])
              ELSE df
          drain_panics == from < Len(t) /\ start_pos > end_pos
          new_spans ==
              IF from < Len(t)
              THEN VecInsert(VecDrain(s2, start_pos, end_pos), start_pos,
                             with_length_and_format(Len(with), new_tf))
              ELSE Append(sp, with_length_and_format(Len(with), df))
          head == StrGet(t, 0, from)
          tail == StrGet(t, to, Len(t))
          new_string ==
              (IF IsSome(head) THEN Unwrap(head) ELSE t)
              \o with
              \o (IF IsSome(tail) THEN Unwrap(tail) ELSE <<>>)
      IN  IF drain_panics
          THEN [text |-> t, spans |-> s2, panicked |-> TRUE]
          ELSE [text |-> new_string,
                spans |-> normalize(new_string, new_spans, df),
                panicked |-> FALSE]

(***************************************************************************)
(* Inputs of the operations.                                               *)
(***************************************************************************)
Bytes == {"a", "E1", "E2"}

\* a &str is valid UTF-8: "E1" is always followed by "E2", and "E2" only
\* ever follows "E1"
IsValidStr(s) ==
    /\ \A i \in 1 .. Len(s) :
          s[i] = "E1" => (i < Len(s) /\ s[i + 1] = "E2")
    /\ \A i \in 1 .. Len(s) :
          s[i] = "E2" => (i > 1 /\ s[i - 1] = "E1")

\* the strings of at most MaxLen bytes
Strs ==
    {s \in UNION {[1 .. n -> Bytes] : n \in 0 .. MaxLen} : IsValidStr(s)}

\* the replacement texts handed to replace_text
Words == {<<>>, <<"a">>, <<"E1", "E2">>}

\* bold at size 14
FmtHeading ==
    [TextFormat_default EXCEPT !.bold = Some(TRUE), !.size = Some(14)]

FmtBullet == [TextFormat_default EXCEPT !.bullet = Some(TRUE)]

\* back to plain text
FmtBody ==
    [TextFormat_default EXCEPT
       !.bold = Some(FALSE), !.size = Some(12), !.bullet = Some(FALSE)]

\* the formats handed to set_text_format
Formats == {TextFormat_default, FmtHeading, FmtBullet, FmtBody}

\* the formats handed to from_str_and_format and set_default_format
DefaultFormats == {TextFormat_default, FmtBullet}

(***************************************************************************)
(* Property of core/src/avm1/property.rs: a slot of a script object.  An   *)
(* Executable and a Value are named by a string.                           *)
(***************************************************************************)
\* enum Attribute
Attributes == {"DontEnum", "DontDelete", "ReadOnly"}

\* Property::Virtual
Virtual(get, set, attributes) ==
    [kind |-> "Virtual", get |-> get, set |-> set, attributes |-> attributes]

\* Property::Stored
Stored(value, attributes) ==
    [kind |-> "Stored", value |-> value, attributes |-> attributes]

\* Property::set: the property after the call and the returned
\* Option<Executable>
property_set(self, new_value) ==
    IF self.kind = "Virtual"
    THEN [self |-> self, ret |-> self.set]
    ELSE [self |-> IF "ReadOnly" \notin self.attributes
                   THEN [self EXCEPT !.value = new_value]
                   ELSE self,
          ret |-> None]

\* Property::attributes
property_attributes(self) == self.attributes

\* Property::set_attributes
set_attributes(self, new_attributes) ==
    [self EXCEPT !.attributes = new_attributes]

\* Property::is_overwritable
is_overwritable(self) ==
    IF self.kind = "Virtual"
    THEN "ReadOnly" \notin self.attributes /\ ~(self.set = None)
    ELSE "ReadOnly" \notin self.attributes

Executables == {"f", "g", "h"}

Values == {"undefined", "null", "true", "1", "s"}

Properties ==
    {Virtual(g, s, a) :
        g \in Executables, s \in {None} \cup {Some(e) : e \in Executables},
        a \in SUBSET Attributes}
    \cup {Stored(v, a) : v \in Values, a \in SUBSET Attributes}

(***************************************************************************)
(* The table as a state machine: one action per public call.               *)
(***************************************************************************)
Init ==
    \E t \in Strs, df \in DefaultFormats :
       \E table \in {from_str_and_format(t, df)} :
          /\ text = table.text
          /\ spans = table.spans
          /\ default_format = table.default_format
          /\ panicked = FALSE
          /\ property = Stored("undefined", {})

SetDefaultFormat(tf) ==
    /\ ~panicked
    /\ default_format' = tf
    /\ UNCHANGED <<text, spans, panicked, property>>

Normalize ==
    /\ ~panicked
    /\ spans' = normalize(text, spans, default_format)
    /\ UNCHANGED <<text, default_format, panicked, property>>

SetTextFormat(from, to, fmt) ==
    /\ ~panicked
    /\ UNCHANGED <<text, default_format, panicked, property>>
    /\ spans' = set_text_format(text, spans, default_format, from, to, fmt)

ReplaceText(from, to, with) ==
    \E r \in {replace_text(text, spans, default_format, from, to, with)} :
    /\ ~panicked
    /\ Len(r.text) <= MaxLen
    /\ text' = r.text
    /\ spans' = r.spans
    /\ panicked' = r.panicked
    /\ UNCHANGED <<default_format, property>>

Next ==
    \/ \E tf \in DefaultFormats : SetDefaultFormat(tf)
    \/ Normalize
    \/ \E from \in Pos, to \in Pos, fmt \in Formats :
          SetTextFormat(from, to, fmt)
    \/ \E from \in Pos, to \in Pos, with \in Words :
          ReplaceText(from, to, with)

Spec == Init /\ [][Next]_vars

(***************************************************************************)
(* The four invariants of the span table.                                  *)
(***************************************************************************)
\* 1. the span lengths sum to the buffer length
LengthsMatch(t, sp) == SumLengths(sp) = Len(t)

\* 2. no two index-adjacent spans are format-equal
NoAdjacentEqual(sp) ==
    \A i \in 1 .. (Len(sp) - 1) : ~can_merge(sp[i], sp[i + 1])

\* 3. every span is non-empty, unless the buffer is empty and the list is one
\*    span of length 0
NoNullSpans(t, sp) ==
    IF Len(t) = 0
    THEN Len(sp) = 1 /\ sp[1].span_length = 0
    ELSE \A i \in 1 .. Len(sp) : sp[i].span_length > 0

\* 4. the span list is never empty
NonEmpty(sp) == Len(sp) >= 1

Normalized(t, sp) ==
    /\ LengthsMatch(t, sp)
    /\ NoAdjacentEqual(sp)
    /\ NoNullSpans(t, sp)
    /\ NonEmpty(sp)

\* the resolved format of a span, its length left out
FormatOf(span) == [f \in Fields |-> span[f]]

RECURSIVE CharFormats(_)
\* the span list spelled out character by character: element p + 1 is the
\* resolved format of the character at buffer position p
CharFormats(sp) ==
    IF sp = <<>> THEN <<>>
    ELSE [i \in 1 .. sp[1].span_length |-> FormatOf(sp[1])]
         \o CharFormats(Tail(sp))

(***************************************************************************)
(* The table built from raw parts: any text length against any span list.  *)
(***************************************************************************)
MaxRawSpans == 3

MaxRawLen == 2

\* a size that is not a number, as a script can set it
FmtNaN == [TextFormat_default EXCEPT !.size = Some(NaN)]

RawSpans ==
    {with_length_and_format(n, f) :
       n \in 0 .. MaxRawLen, f \in {TextFormat_default, FmtHeading, FmtNaN}}

RawSpanLists == UNION {[1 .. k -> RawSpans] : k \in 0 .. MaxRawSpans}

RawTexts == {s \in Strs : \A i \in 1 .. Len(s) : s[i] = "a"}

InitRaw ==
    \E t \in RawTexts, sp \in RawSpanLists :
       \E table \in {from_str_and_spans(t, sp)} :
          /\ text = table.text
          /\ spans = table.spans
          /\ default_format = table.default_format
          /\ panicked = FALSE
          /\ property = Stored("undefined", {})

NextRaw ==
    \/ \E tf \in DefaultFormats : SetDefaultFormat(tf)
    \/ Normalize

SpecRaw == InitRaw /\ [][NextRaw]_vars

(***************************************************************************)
(* The public surface with ensure_span_break_at, which is pub as well.     *)
(***************************************************************************)
EnsureSpanBreakAt(search_pos) ==
    /\ ~panicked
    /\ spans' = ensure_span_break_at(spans, search_pos).spans
    /\ UNCHANGED <<text, default_format, panicked, property>>

NextPublic ==
    \/ Next
    \/ \E search_pos \in Pos : EnsureSpanBreakAt(search_pos)

SpecPublic == Init /\ [][NextPublic]_vars

(***************************************************************************)
(* Properties.                                                             *)
(***************************************************************************)
\* a non-empty range inside the buffer
InRange(from, to) == from < to /\ to <= Len(text)

\* the buffer positions of [from, to) that exist
Covered(from, to) == from .. (Min(to, Len(text)) - 1)

\* the fields a format sets
SetFields(fmt) == {f \in Fields : IsSome(fmt[f])}

\* C1: in every state reached from from_str_and_format by set_text_format,
\* replace_text, set_default_format and normalize calls, the span lengths sum
\* to the length of the text buffer.
C1_LengthsMatch == LengthsMatch(text, spans)

\* a text that a replace_text call has rebuilt around a two-byte character,
\* under a list of several spans
C1_Witness ==
    /\ Len(text) = MaxLen
    /\ Len(spans) >= 2
    /\ \E i \in 1 .. Len(text) : text[i] = "E1"
    /\ \E i \in 1 .. Len(text) : text[i] = "a"

\* C2: in every such state no two index-adjacent spans are format-equal.
C2_NoAdjacentEqual == NoAdjacentEqual(spans)

\* three spans, the outer two format-equal: formatting the middle one like
\* its neighbours makes normalize merge a chain of three
C2_Witness ==
    /\ Len(spans) = 3
    /\ can_merge(spans[1], spans[3])

\* C3: in every such state the span list is non-empty and every span has
\* length > 0, except that an empty buffer has exactly one span of length 0.
C3_NoNullSpans == NonEmpty(spans) /\ NoNullSpans(text, spans)

\* a text of several spans that replace_text empties: what is left is one
\* span of length 0
C3_Witness ==
    /\ Len(text) = MaxLen
    /\ Len(spans) >= 2
    /\ LET r == replace_text(text, spans, default_format, 0, Len(text), <<>>)
       IN  /\ Len(r.text) = 0
           /\ Len(r.spans) = 1
           /\ r.spans[1].span_length = 0

\* C4: normalize restores all four invariants from any raw state.
C4_NormalizeRestores ==
    Normalized(text, normalize(text, spans, default_format))

\* a raw table that breaks invariants 1, 2 and 3 at once
C4_Witness ==
    /\ SumLengths(spans) > Len(text)
    /\ ~NoAdjacentEqual(spans)
    /\ \E i \in 1 .. Len(spans) : spans[i].span_length = 0
    /\ Len(text) > 0
    /\ Normalized(text, normalize(text, spans, default_format))

\* C5: every public method that changes the buffer or the span list returns
\* with invariants 1-4 holding when called on a state where they held.
C5_PublicMutatorsKeepInvariants ==
    [][Normalized(text, spans) => Normalized(text', spans')]_vars

\* C6: normalize is idempotent.
C6_NormalizeIdempotent ==
    normalize(text, normalize(text, spans, default_format), default_format)
      = normalize(text, spans, default_format)

\* a raw table that normalize changes into one of several spans
C6_Witness ==
    /\ normalize(text, spans, default_format) # spans
    /\ Len(normalize(text, spans, default_format)) >= 2
    /\ ~NoAdjacentEqual(spans)

\* C7: after set_text_format(from, to, fmt) with from < to and from inside
\* the buffer, every character of the range carries fmt's value for each
\* field fmt sets, and get_text_format(from, to) returns that value.
C7_SetThenQuery ==
    \A from \in Pos, to \in Pos, fmt \in Formats :
       (from < to /\ from < Len(text)) =>
          \A after \in
               {set_text_format(text, spans, default_format, from, to, fmt)} :
             \A chars \in {CharFormats(after)},
                query \in {get_text_format(after, from, to)} :
                /\ \A p \in Covered(from, to), f \in SetFields(fmt) :
                      chars[p + 1][f] = Unwrap(fmt[f])
                /\ \A f \in SetFields(fmt) : query[f] = fmt[f]

\* C8: set_text_format(from, to, fmt) with from < to <= length leaves every
\* field that fmt does not set as it was, at every character of the range.
C8_UnsetFieldsKept ==
    \A before \in {CharFormats(spans)} :
       \A from \in Pos, to \in Pos, fmt \in Formats :
          InRange(from, to) =>
             \A after \in
                  {CharFormats(set_text_format(text, spans, default_format,
                                               from, to, fmt))} :
                \A p \in Covered(from, to), f \in Fields \ SetFields(fmt) :
                   after[p + 1][f] = before[p + 1][f]

\* a character that is a bullet and a heading: each of the two calls that
\* made it so kept what the other had set
C8_Witness ==
    \E i \in 1 .. Len(spans) :
       /\ spans[i].span_length > 0
       /\ spans[i].bullet
       /\ spans[i].bold
       /\ spans[i].size = 14

\* C9: on a normalized table get_text_format(from, to) with from < to <=
\* length returns, for each field, the value shared by all spans overlapping
\* the range, and unset if two of them differ.
C9_QueryIsCommonFormat ==
    \A chars \in {CharFormats(spans)} :
       \A from \in Pos, to \in Pos :
          InRange(from, to) =>
             \A query \in {get_text_format(spans, from, to)} :
                \A f \in Fields :
                   \A values \in {{chars[p + 1][f] : p \in Covered(from, to)}} :
                      query[f] = IF Cardinality(values) = 1
                                 THEN Some(CHOOSE v \in values : TRUE)
                                 ELSE None

\* C10: TextSpan::get_text_format returns every field set to the span's own
\* value of that field, so a span rebuilt from it is format-equal to the span.
C10_ResolveRoundTrip ==
    \A i \in 1 .. Len(spans) :
       /\ \A f \in Fields :
             span_get_text_format(spans[i])[f] = Some(spans[i][f])
       /\ can_merge(
            with_length_and_format(spans[i].span_length,
                                   span_get_text_format(spans[i])),
            spans[i])

\* C11: get_text_format(from, to) returns the all-unset format whenever
\* [from, to) contains no buffer position: from = to, to < from, or from at
\* or beyond the buffer length.
C11_EmptyRangeQueryUnset ==
    \A from \in Pos, to \in Pos :
       (from = to \/ to < from \/ from >= Len(text)) =>
          get_text_format(spans, from, to) = TextFormat_default

\* C12: for from <= to, replace_text(from, to, w) sets the buffer to
\* old[0 .. min(from, len)] ++ w ++ old[min(to, len) ..].
C12_ReplacedBuffer ==
    \A from \in Pos, to \in Pos, w \in Words :
       from <= to =>
          replace_text(text, spans, default_format, from, to, w).text
            = SubSeq(text, 1, Min(from, Len(text))) \o w
              \o SubSeq(text, Min(to, Len(text)) + 1, Len(text))

\* the same on positions that are character boundaries or beyond the end
C12_ReplacedBufferOnBoundaries ==
    \A from \in Pos, to \in Pos, w \in Words :
       (/\ from <= to
        /\ from < Len(text) => is_char_boundary(text, from)
        /\ to < Len(text) => is_char_boundary(text, to)) =>
          replace_text(text, spans, default_format, from, to, w).text
            = SubSeq(text, 1, Min(from, Len(text))) \o w
              \o SubSeq(text, Min(to, Len(text)) + 1, Len(text))

\* C13: replace_text(from, to, w) with to < from is a no-op: the buffer, the
\* span list and the default format are unchanged.
C13_DegenerateReplaceNoOp ==
    [][\A from \in Pos, to \in Pos, w \in Words :
          (to < from /\ ReplaceText(from, to, w)) => UNCHANGED vars]_vars

\* a table of several spans on which a reversed range inside the buffer is
\* handed to replace_text and nothing moves
C13_Witness ==
    /\ Len(text) = MaxLen
    /\ Len(spans) >= 2
    /\ \E from \in Pos, to \in Pos :
          /\ to < from
          /\ from < Len(text)
          /\ replace_text(text, spans, default_format, from, to, <<"a">>)
               = [text |-> text, spans |-> spans, panicked |-> FALSE]

\* the resolved format a span gets from a format alone: each unset field
\* takes the neutral value
Resolved(tf) ==
    [f \in Fields |->
       IF IsSome(tf[f]) THEN Unwrap(tf[f]) ELSE TextSpan_default[f]]

\* C14: for from <= to < length and a non-empty w, after
\* replace_text(from, to, w) the inserted characters at [from, from + |w|)
\* carry, in every field, the format the character at position to had before.
C14_InsertedTakesFollowingFormat ==
    \A before \in {CharFormats(spans)} :
       \A from \in Pos, to \in Pos, w \in Words \ {<<>>} :
          (from <= to /\ to < Len(text)) =>
             \A after \in
                  {CharFormats(replace_text(text, spans, default_format,
                                            from, to, w).spans)} :
                \A p \in from .. (from + Len(w) - 1) :
                   after[p + 1] = before[to + 1]

\* C15: when to >= length or from >= length, the characters inserted by
\* replace_text(from, to, w) carry the default format, each unset field of it
\* taking the neutral span default.
C15_InsertedAtEndTakesDefault ==
    \A from \in Pos, to \in Pos, w \in Words :
       (from <= to /\ (to >= Len(text) \/ from >= Len(text))) =>
          \A after \in
               {CharFormats(replace_text(text, spans, default_format,
                                         from, to, w).spans)} :
             \A p \in Min(from, Len(text))
                        .. (Min(from, Len(text)) + Len(w) - 1) :
                after[p + 1] = Resolved(default_format)

\* a heading tail replaced up to the end of the buffer while the default is
\* the bullet format: the inserted character is a plain bullet
C15_Witness ==
    /\ Len(text) >= 2
    /\ default_format = FmtBullet
    /\ spans[Len(spans)].bold
    /\ ~spans[Len(spans)].bullet
    /\ \A r \in {replace_text(text, spans, default_format,
                              Len(text) - 1, Len(text), <<"a">>)} :
          /\ Len(r.text) = Len(text)
          /\ CharFormats(r.spans)[Len(text)] = Resolved(FmtBullet)

(***************************************************************************)
(* Every public call on a table built from raw parts.                      *)
(***************************************************************************)
SpecRawPublic == InitRaw /\ [][NextPublic]_vars

\* C16: on every table of the public constructors, followed by any public
\* calls, the operations complete without a panic: the range drained in
\* replace_text always has start_index <= end_index <= span count.
C16_NoPanic ==
    /\ ~panicked
    /\ \A from \in Pos, to \in Pos, w \in Words :
          ~replace_text(text, spans, default_format, from, to, w).panicked


\* C17: set_text_format(from, to, fmt) with from at or past the end of the
\* buffer changes nothing.
C17_SetPastEndNoOp ==
    \A from \in Pos, to \in Pos, fmt \in Formats :
       from >= Len(text) =>
          set_text_format(text, spans, default_format, from, to, fmt) = spans

\* C18: ensure_span_break_at is idempotent: called twice with the same
\* position it returns the same index both times and the second call leaves
\* the span list as the first one left it.
C18_BreakIdempotent ==
    \A pos \in Pos :
       \A r1 \in {ensure_span_break_at(spans, pos)} :
          \A r2 \in {ensure_span_break_at(r1.spans, pos)} :
             /\ r2.ret = r1.ret
             /\ r2.spans = r1.spans

\* a position strictly inside a span: the first call splits that span
C18_Witness ==
    \E pos \in Pos :
       \A r1 \in {ensure_span_break_at(spans, pos)} :
          /\ IsSome(r1.ret)
          /\ Len(r1.spans) = Len(spans) + 1
          /\ ensure_span_break_at(r1.spans, pos) = r1

\* C19: resolve_position_as_span(pos) returns (i, off) where the lengths of
\* the spans before i plus off equal pos and off is less than the length of
\* span i, when pos is below the total of the span lengths; it returns
\* nothing when pos is at or above that total.
C19_ResolveIsPrefixSum ==
    \A pos \in Pos :
       \A r \in {resolve_position_as_span(spans, pos)} :
          IF pos < SumLengths(spans)
          THEN /\ IsSome(r)
               /\ Unwrap(r)[1] \in 0 .. (Len(spans) - 1)
               /\ SumLengths(SubSeq(spans, 1, Unwrap(r)[1])) + Unwrap(r)[2] = pos
               /\ Unwrap(r)[2] < spans[Unwrap(r)[1] + 1].span_length
          ELSE r = None

\* a position in a span that follows a zero-length span, at an offset > 0
C19_Witness ==
    \E pos \in Pos :
       \A r \in {resolve_position_as_span(spans, pos)} :
          /\ IsSome(r)
          /\ Unwrap(r)[1] >= 2
          /\ Unwrap(r)[2] >= 1
          /\ \E j \in 1 .. Unwrap(r)[1] : spans[j].span_length = 0

\* C20: ensure_span_break_at(pos) with pos at or past the total of the span
\* lengths returns nothing and leaves the span list and the buffer as they
\* were.
C20_BreakPastEndNothing ==
    [][\A pos \in Pos :
          pos >= SumLengths(spans) =>
             /\ ensure_span_break_at(spans, pos).ret = None
             /\ EnsureSpanBreakAt(pos) => UNCHANGED vars]_vars

\* several spans, one of them made by an earlier break, and a position past
\* the end for which the call returns nothing
C20_Witness ==
    /\ Len(spans) >= 2
    /\ ~NoAdjacentEqual(spans)
    /\ \E pos \in Pos :
          /\ pos >= SumLengths(spans)
          /\ ensure_span_break_at(spans, pos) = [spans |-> spans, ret |-> None]

\* buffer position p lies in the span of index i (0-based)
InSpan(sp, i, p) ==
    /\ SumLengths(SubSeq(sp, 1, i)) <= p
    /\ p < SumLengths(SubSeq(sp, 1, i + 1))

\* C21: get_span_boundaries(from, to) returns (start, end) such that, for
\* 0 <= from < to <= length, every buffer position of [from, to) lies in a
\* span whose index is in [start, end); end never exceeds the span count, and
\* a `to` beyond the buffer gives end = span count.
C21_BoundariesCover ==
    \A from \in Pos, to \in Pos :
       \A b \in {get_span_boundaries(spans, from, to)} :
          /\ b[2] <= Len(spans)
          /\ to > Len(text) => b[2] = Len(spans)
          /\ (from < to /\ to <= Len(text)) =>
                \A p \in from .. (to - 1) :
                   \E i \in b[1] .. (b[2] - 1) : InSpan(spans, i, p)

\* three spans or more and a range that lies in the middle of the list
C21_Witness ==
    /\ Len(spans) >= 3
    /\ \E from \in Pos, to \in Pos :
          /\ from < to /\ to < Len(text)
          /\ get_span_boundaries(spans, from, to) = <<1, 2>>
          /\ \A p \in from .. (to - 1) : InSpan(spans, 1, p)


\* the split points tried on a span
SplitPoints == 0 .. (MaxLen + 1)

\* C22: split/merge round trip: for any span s and any point with
\* 0 < point < s.length, split_at(point) followed by merge of the returned
\* span back into s succeeds (returns nothing) and leaves s with its original
\* length and a format equal to the original.
C22_SplitMergeRoundTrip ==
    \A i \in 1 .. Len(spans), point \in SplitPoints :
       (0 < point /\ point < spans[i].span_length) =>
          \A s \in {split_at(spans[i], point)} :
             /\ IsSome(s.ret)
             /\ \A m \in {merge(s.self, Unwrap(s.ret))} :
                   /\ m.ret = None
                   /\ m.self = spans[i]

\* C23: split_at(point) with point = 0 or point >= span length returns
\* nothing and leaves the span's length and format unchanged; otherwise the
\* two resulting lengths are point and (original length - point), both > 0,
\* and both spans have the original format.
C23_SplitAt ==
    \A i \in 1 .. Len(spans), point \in SplitPoints :
       \A s \in {split_at(spans[i], point)} :
          IF point = 0 \/ point >= spans[i].span_length
          THEN s = [self |-> spans[i], ret |-> None]
          ELSE /\ IsSome(s.ret)
               /\ s.self.span_length = point
               /\ Unwrap(s.ret).span_length = spans[i].span_length - point
               /\ s.self.span_length > 0
               /\ Unwrap(s.ret).span_length > 0
               /\ FormatOf(s.self) = FormatOf(spans[i])
               /\ FormatOf(Unwrap(s.ret)) = FormatOf(spans[i])

\* a formatted span of two characters or more is split in two, and a split at
\* its end is refused
C23_Witness ==
    \E i \in 1 .. Len(spans) :
       /\ spans[i].span_length >= 2
       /\ spans[i].bold
       /\ IsSome(split_at(spans[i], 1).ret)
       /\ split_at(spans[i], 1).self.span_length = 1
       /\ split_at(spans[i], spans[i].span_length).ret = None


\* C25: a span built by default construction (TextSpan::with_length /
\* TextSpan::default) has the neutral attributes: margins, indent,
\* block-indent, leading and letter-spacing 0, size 12, color opaque black
\* (r = g = b = 0 with alpha 255), alignment left, kerning / bold / italic /
\* underline / bullet false, empty tab-stop list, empty font / url / target.
C25_DefaultSpanNeutral ==
    \A n \in 0 .. Len(text) :
       with_length(n) =
          [span_length |-> n,
           font |-> "",
           size |-> 12,
           color |-> [r |-> 0, g |-> 0, b |-> 0, a |-> 255],
           align |-> "Left",
           bold |-> FALSE,
           italic |-> FALSE,
           underline |-> FALSE,
           left_margin |-> 0,
           right_margin |-> 0,
           indent |-> 0,
           block_indent |-> 0,
           kerning |-> FALSE,
           leading |-> 0,
           letter_spacing |-> 0,
           tab_stops |-> <<>>,
           bullet |-> FALSE,
           url |-> "",
           target |-> ""]


(***************************************************************************)
(* Markup lowering: TextFormat::from_presentational_markup and             *)
(* FormatSpans::lower_from_html.  An attribute value is a String, a        *)
(* sequence of one-byte characters and of the two-byte character           *)
(* "E1","E2".                                                              *)
(***************************************************************************)
DecDigits == {"0", "1", "2"}

HexDigits == DecDigits \cup {"f"}

\* the value of a digit character (char::to_digit)
to_digit(c) ==
    CASE c = "0" -> 0 [] c = "1" -> 1 [] c = "2" -> 2 [] c = "f" -> 15

RECURSIVE DigitsValue(_, _)
\* the number that a string of digits spells in the given radix
DigitsValue(v, radix) ==
    IF v = <<>> THEN 0
    ELSE radix * DigitsValue(SubSeq(v, 1, Len(v) - 1), radix)
         + to_digit(v[Len(v)])

\* str::parse::<f64>().ok() that reads the leading digits and ignores what
\* follows them
ParseF64_leading_digits(v) ==
    IF v # <<>> /\ v[1] \in DecDigits
    THEN Some(DigitsValue(
                SubSeq(v, 1,
                       CHOOSE k \in 1 .. Len(v) :
                          /\ \A i \in 1 .. k : v[i] \in DecDigits
                          /\ k < Len(v) => v[k + 1] \notin DecDigits),
                10))
    ELSE None

\* str::parse::<f64>().ok(): on these characters a string parses when it is
\* a non-empty string of decimal digits, and the whole string must parse
ParseF64(v) ==
    IF v # <<>> /\ \A i \in 1 .. Len(v) : v[i] \in DecDigits
    THEN Some(DigitsValue(v, 10))
    ELSE None

\* u8::from_str_radix(v, 16).ok()
u8_from_str_radix_16(v) ==
    IF /\ v # <<>>
       /\ \A i \in 1 .. Len(v) : v[i] \in HexDigits
       /\ DigitsValue(v, 16) <= 255
    THEN Some(DigitsValue(v, 16))
    ELSE None

RECURSIVE str_trim(_)
\* str::trim
str_trim(v) ==
    IF v # <<>> /\ v[1] = " " THEN str_trim(Tail(v))
    ELSE IF v # <<>> /\ v[Len(v)] = " "
         THEN str_trim(SubSeq(v, 1, Len(v) - 1))
         ELSE v

RECURSIVE str_split_comma(_)
\* str::split(','), collected
str_split_comma(v) ==
    IF \E k \in 1 .. Len(v) : v[k] = ","
    THEN LET k == CHOOSE k \in 1 .. Len(v) :
                     v[k] = "," /\ \A j \in 1 .. (k - 1) : v[j] # ","
         IN  <<SubSeq(v, 1, k - 1)>>
             \o str_split_comma(SubSeq(v, k + 1, Len(v)))
    ELSE <<v>>

RECURSIVE parse_tab_stops(_)
\* .filter_map(|v| v.trim().parse().ok()).collect() over the split pieces
parse_tab_stops(pieces) ==
    IF pieces = <<>> THEN <<>>
    ELSE LET p == ParseF64(str_trim(Head(pieces))) IN
         (IF IsSome(p) THEN <<Unwrap(p)>> ELSE <<>>)
         \o parse_tab_stops(Tail(pieces))

\* XMLNode::tag_name
tag_name(node) ==
    IF node.kind = "Element" THEN Some(node.tag_name) ELSE None

\* XMLNode::attribute_value: the value of the attribute, when the node has it
attribute_value(node, name) ==
    IF node.kind = "Element" /\ name \in DOMAIN node.attributes
    THEN Some(node.attributes[name])
    ELSE None

\* XMLNode::is_text
is_text(node) == node.kind = "Text"

\* the color attribute of a font element: #RRGGBB
parse_color(color) ==
    IF color # <<>> /\ color[1] = "#"
    THEN LET channel(start, end) ==
                 LET v == StrGet(color, start, end) IN
                 IF IsSome(v) THEN u8_from_str_radix_16(Unwrap(v)) ELSE None
             rval == channel(1, 3)
             gval == channel(3, 5)
             bval == channel(5, 7)
         IN  IF IsSome(rval) /\ IsSome(gval) /\ IsSome(bval)
             THEN Some([r |-> Unwrap(rval), g |-> Unwrap(gval),
                        b |-> Unwrap(bval), a |-> 255])
             ELSE None
    ELSE None

\* TextFormat::from_presentational_markup
from_presentational_markup(node) ==
    LET name == tag_name(node)
        attr(n) == attribute_value(node, n)
        parsed(n) == IF IsSome(attr(n)) THEN ParseF64(Unwrap(attr(n))) ELSE None
    IN  IF name = Some("p")
        THEN [TextFormat_default EXCEPT
                !.align =
                   IF attr("align") = Some(<<"l", "e", "f", "t">>)
                   THEN Some("Left")
                   ELSE IF attr("align") = Some(<<"c", "e", "n", "t", "e", "r">>)
                   THEN Some("Center")
                   ELSE IF attr("align") = Some(<<"r", "i", "g", "h", "t">>)
                   THEN Some("Right")
                   ELSE None]
        ELSE IF name = Some("a")
        THEN [TextFormat_default EXCEPT
                !.url = attr("href"), !.target = attr("target")]
        ELSE IF name = Some("font")
        THEN [TextFormat_default EXCEPT
                !.font = attr("face"),
                !.size = parsed("size"),
                !.color = IF IsSome(attr("color"))
                          THEN parse_color(Unwrap(attr("color")))
                          ELSE None]
        ELSE IF name = Some("b")
        THEN [TextFormat_default EXCEPT !.bold = Some(TRUE)]
        ELSE IF name = Some("i")
        THEN [TextFormat_default EXCEPT !.italic = Some(TRUE)]
        ELSE IF name = Some("u")
        THEN [TextFormat_default EXCEPT !.underline = Some(TRUE)]
        ELSE IF name = Some("li")
        THEN [TextFormat_default EXCEPT !.bullet = Some(TRUE)]
        ELSE IF name = Some("textformat")
        THEN [TextFormat_default EXCEPT
                !.left_margin = parsed("leftmargin"),
                !.right_margin = parsed("rightmargin"),
                !.indent = parsed("indent"),
                !.block_indent = parsed("blockindent"),
                !.leading = parsed("leading"),
                !.tab_stops =
                   IF IsSome(attr("tabstops"))
                   THEN Some(parse_tab_stops(
                               str_split_comma(Unwrap(attr("tabstops")))))
                   ELSE None]
        ELSE TextFormat_default


\* XMLNodeData::Element with the attributes that are present
Element(tag, attrs) ==
    [kind |-> "Element", tag_name |-> tag,
     attributes |-> [n \in {m \in DOMAIN attrs : IsSome(attrs[m])} |->
                       Unwrap(attrs[n])],
     contents |-> <<>>, children |-> <<>>]

\* XMLNodeData::Text
TextNode(contents) ==
    [kind |-> "Text", contents |-> contents, children |-> <<>>]

\* XMLNodeData::Comment
CommentNode(contents) ==
    [kind |-> "Comment", contents |-> contents, children |-> <<>>]

\* XMLNodeData::DocumentRoot
DocumentRoot(children) ==
    [kind |-> "DocumentRoot", contents |-> <<>>, children |-> children]

\* XMLNode::append_child, for each node of a list in turn
WithChildren(node, children) == [node EXCEPT !.children = children]

\* an attribute that is absent, or present with one of the values
Optional(values) == {None} \cup {Some(v) : v \in values}

AlignValues ==
    {<<"l", "e", "f", "t">>, <<"c", "e", "n", "t", "e", "r">>,
     <<"r", "i", "g", "h", "t">>, <<"j", "u", "s", "t", "i", "f", "y">>,
     <<"m", "i", "d", "d", "l", "e">>, <<>>}

\* numbers and things that are not numbers
NumberValues == {<<"1", "2">>, <<"1", "x">>, <<>>}

ColorValues ==
    {<<"#", "f", "f", "0", "0", "1", "2">>,
     <<"#", "f", "f", "0", "0", "x", "2">>,
     <<"#", "f", "x", "0", "0", "1", "2">>,
     <<"#", "f", "f", "0", "0">>,
     <<"f", "f", "0", "0", "1", "2">>,
     <<"#", "f", "E1", "E2", "0", "0", "1">>}

TabStopValues ==
    {<<"1", ",", " ", "2", " ", ",", "x", ",", "1", "2">>, <<>>}

FaceValues == {<<"A", "r", "i", "a", "l">>}

\* the elements handed to from_presentational_markup
Elements ==
    {Element("p", [align |-> a]) : a \in Optional(AlignValues)}
    \cup {Element("a", [href |-> h, target |-> t]) :
            h \in Optional({<<"u">>}), t \in Optional({<<"t">>})}
    \cup {Element("font", [face |-> f, size |-> s, color |-> c]) :
            f \in Optional(FaceValues), s \in Optional(NumberValues),
            c \in Optional(ColorValues)}
    \cup {Element(t, [align |-> a, size |-> s]) :
            t \in {"b", "i", "u", "li", "span"},
            a \in Optional({<<"l", "e", "f", "t">>}),
            s \in Optional({<<"1", "2">>})}
    \cup {Element("textformat",
                  [leftmargin |-> l, rightmargin |-> r, indent |-> i,
                   blockindent |-> b, leading |-> d, tabstops |-> t]) :
            l \in Optional(NumberValues), r \in Optional({<<"2">>}),
            i \in Optional({<<"1", "x">>}), b \in Optional({<<"1">>}),
            d \in Optional({<<"0">>}), t \in Optional(TabStopValues)}

\* the documents handed to lower_from_html: one element around one text
\* node, an element inside an element, text beside an element, a comment,
\* and the empty document
Documents ==
    {DocumentRoot(<<WithChildren(e, <<TextNode(w)>>)>>) :
        e \in Elements, w \in Words}
    \cup {DocumentRoot(<<WithChildren(Element("p", [align |-> None]),
                           <<WithChildren(Element("b", [align |-> None]),
                                          <<TextNode(w)>>),
                             TextNode(<<"a">>)>>)>>) : w \in Words}
    \cup {DocumentRoot(<<TextNode(<<"a">>), Element("b", [align |-> None]),
                         CommentNode(<<"a">>)>>),
          DocumentRoot(<<>>)}

RECURSIVE walk(_)
RECURSIVE walk_children(_)
\* XMLNode::walk: the steps of a depth-first walk in document order; a node
\* that holds children is entered and left, any other node is walked around
walk(node) ==
    IF node.kind \in {"Element", "DocumentRoot"}
    THEN <<[step |-> "In", node |-> node]>>
         \o walk_children(node.children)
         \o <<[step |-> "Out", node |-> node]>>
    ELSE <<[step |-> "Around", node |-> node]>>

\* the walks of a list of sibling nodes, one after the other
walk_children(nodes) ==
    IF nodes = <<>> THEN <<>>
    ELSE walk(Head(nodes)) \o walk_children(Tail(nodes))

\* Vec::pop, the popped value dropped
VecPop(v) == IF v = <<>> THEN v ELSE SubSeq(v, 1, Len(v) - 1)

RECURSIVE lower_loop(_, _, _)
\* lower_from_html: the for loop over the steps of the walk
lower_loop(steps, format_stack, table) ==
    IF steps = <<>> THEN table
    ELSE LET step == Head(steps) IN
         IF step.step = "In"
         THEN lower_loop(Tail(steps),
                         Append(format_stack,
                                from_presentational_markup(step.node)),
                         table)
         ELSE IF step.step = "Around" /\ is_text(step.node)
         THEN lower_loop(Tail(steps), format_stack, table)
         ELSE IF step.step = "Out"
         THEN lower_loop(Tail(steps), VecPop(format_stack), table)
         ELSE lower_loop(Tail(steps), format_stack, table)

\* FormatSpans::lower_from_html
lower_from_html(t, sp, tree) ==
    lower_loop(walk(tree), <<>>, [text |-> t, spans |-> sp])

LowerFromHtml(tree) ==
    /\ ~panicked
    /\ \E r \in {lower_from_html(text, spans, tree)} :
          /\ text' = r.text
          /\ spans' = r.spans
    /\ UNCHANGED <<default_format, panicked, property>>

NextHtml ==
    \/ Next
    \/ \E tree \in Documents : LowerFromHtml(tree)

SpecHtml == Init /\ [][NextHtml]_vars

RECURSIVE TextContents(_)
\* the contents of the text nodes of a list of steps, in document order
TextContents(steps) ==
    IF steps = <<>> THEN <<>>
    ELSE (IF Head(steps).step = "Around" /\ is_text(Head(steps).node)
          THEN Head(steps).node.contents ELSE <<>>)
         \o TextContents(Tail(steps))

\* C24: lower_from_html appends one styled run to the table per text node of
\* the document, in document order; so after lowering a document with at
\* least one non-empty text node the buffer and the spans contain that text:
\* the buffer is the old buffer followed by the text of the document, and
\* the span lengths add up to the new buffer length.
C24_LoweringAppendsText ==
    \A tree \in Documents :
       \A r \in {lower_from_html(text, spans, tree)} :
          /\ r.text = text \o TextContents(walk(tree))
          /\ SumLengths(r.spans) = Len(r.text)


\* the elements, each around one text node that holds the given text
ElementsAround(t) == {WithChildren(e, <<TextNode(t)>>) : e \in Elements}

\* the fields that a tag's rule names
RuleFields(tag) ==
    CASE tag = "p" -> {"align"}
      [] tag = "a" -> {"url", "target"}
      [] tag = "font" -> {"font", "size", "color"}
      [] tag = "b" -> {"bold"}
      [] tag = "i" -> {"italic"}
      [] tag = "u" -> {"underline"}
      [] tag = "li" -> {"bullet"}
      [] tag = "textformat" ->
           {"left_margin", "right_margin", "indent", "block_indent",
            "leading", "tab_stops"}
      [] OTHER -> {}

\* C26: lowering a paragraph element maps its align attribute through all
\* four values left, center, right and justify to the corresponding
\* alignment; any other or missing value leaves alignment unset; every other
\* field stays unset.
C26_ParagraphAlign ==
    \A node \in ElementsAround(text) :
       tag_name(node) = Some("p") =>
          \A tf \in {from_presentational_markup(node)},
             align \in {attribute_value(node, "align")} :
             /\ align = Some(<<"l", "e", "f", "t">>) => tf.align = Some("Left")
             /\ align = Some(<<"c", "e", "n", "t", "e", "r">>) =>
                   tf.align = Some("Center")
             /\ align = Some(<<"r", "i", "g", "h", "t">>) =>
                   tf.align = Some("Right")
             /\ align = Some(<<"j", "u", "s", "t", "i", "f", "y">>) =>
                   tf.align = Some("Justify")
             /\ align \in {None, Some(<<"m", "i", "d", "d", "l", "e">>),
                           Some(<<>>)} => tf.align = None
             /\ \A f \in Fields \ {"align"} : tf[f] = None

\* C27: markup lowering never fails on unparsable values and sets only the
\* fields its tag's rule names: a font element with an unparsable size gives
\* size unset while face is still applied, a color is set only if all three
\* hex channels of #RRGGBB parse (otherwise color is unset), a b element
\* gives bold = true with all other fields unset, and an unrecognized tag
\* gives the all-unset format.
C27_LoweringSetsOnlyRuleFields ==
    \A node \in ElementsAround(text) :
       \A tf \in {from_presentational_markup(node)} :
          /\ \A f \in Fields \ RuleFields(node.tag_name) : tf[f] = None
          /\ node.tag_name = "font" =>
                /\ tf.font = attribute_value(node, "face")
                /\ attribute_value(node, "size")
                      \in {Some(<<"1", "x">>), Some(<<>>)} => tf.size = None
                /\ attribute_value(node, "size") = Some(<<"1", "2">>) =>
                      tf.size = Some(12)
                /\ IsSome(tf.color) <=>
                      \E c \in {attribute_value(node, "color")} :
                         /\ IsSome(c)
                         /\ Len(Unwrap(c)) >= 7
                         /\ Unwrap(c)[1] = "#"
                         /\ \A k \in 2 .. 7 : Unwrap(c)[k] \in HexDigits
                /\ attribute_value(node, "color")
                      = Some(<<"#", "f", "f", "0", "0", "1", "2">>) =>
                      tf.color = Some([r |-> 255, g |-> 0, b |-> 18, a |-> 255])
          /\ node.tag_name = "b" =>
                tf = [TextFormat_default EXCEPT !.bold = Some(TRUE)]
          /\ node.tag_name = "span" => tf = TextFormat_default
          /\ node.tag_name = "textformat" =>
                /\ attribute_value(node, "leftmargin")
                      \in {Some(<<"1", "x">>), Some(<<>>)} =>
                      tf.left_margin = None
                /\ attribute_value(node, "indent") = Some(<<"1", "x">>) =>
                      tf.indent = None
                /\ attribute_value(node, "tabstops")
                      = Some(<<"1", ",", " ", "2", " ", ",", "x", ",",
                               "1", "2">>) =>
                      tf.tab_stops = Some(<<1, 2, 12>>)


\* a font element with a face, a size that is not a number and a color with a
\* channel that is not hexadecimal, around the text of a non-empty buffer:
\* only the font is set
C27_Witness ==
    /\ text # <<>>
    /\ \E node \in ElementsAround(text) :
          /\ node.tag_name = "font"
          /\ attribute_value(node, "size") = Some(<<"1", "x">>)
          /\ attribute_value(node, "color")
                = Some(<<"#", "f", "f", "0", "0", "x", "2">>)
          /\ from_presentational_markup(node)
                = [TextFormat_default EXCEPT
                     !.font = Some(<<"A", "r", "i", "a", "l">>)]


\* C28: every call runs to completion: normalize terminates on any text and
\* any finite span list, because each of its three loops makes progress on
\* every iteration.  An iteration of the trimming loop leaves the loop or
\* removes the last span; an iteration of the leading-removal loop removes
\* the first span; an iteration of the adjacent-pair loop removes a span or
\* advances i, so 2 * (span count) - i decreases and stays positive.  Each
\* loop is its iteration followed by the rest of the loop.
C28_NormalizeLoopsProgress ==
    /\ \A deficiency \in 1 .. SumLengths(spans) :
          normalize_trim_guard(spans, deficiency) =>
             \A n \in {normalize_trim_step(spans, deficiency)} :
                /\ n.broke \/ Len(n.spans) = Len(spans) - 1
                /\ n.deficiency >= 0
                /\ normalize_trim(spans, deficiency)
                     = IF n.broke THEN n.spans
                       ELSE normalize_trim(n.spans, n.deficiency)
    /\ normalize_leading_guard(spans) =>
          \A n \in {normalize_leading_step(spans)} :
             /\ Len(n) = Len(spans) - 1
             /\ normalize_leading(spans) = normalize_leading(n)
    /\ \A i \in 0 .. Len(spans) :
          normalize_merge_guard(spans, i) =>
             \A n \in {normalize_merge_step(spans, i)} :
                /\ 2 * Len(n.spans) - n.i < 2 * Len(spans) - i
                /\ 2 * Len(n.spans) - n.i > 0
                /\ normalize_merge(spans, i) = normalize_merge(n.spans, n.i)
    /\ Len(normalize(text, spans, default_format)) >= 1

\* a table on which all three loops run: more span length than text, a
\* null-length first span, and two spans that merge
C28_Witness ==
    /\ Len(spans) >= 3
    /\ SumLengths(spans) > Len(text)
    /\ normalize_trim_guard(spans, SumLengths(spans) - Len(text))
    /\ normalize_leading_guard(spans)
    /\ normalize_merge_guard(spans, 1)
    /\ Len(normalize_merge_step(spans, 1).spans) = Len(spans) - 1
    /\ Len(normalize(text, spans, default_format)) < Len(spans)


\* C29: inside set_text_format and replace_text, after
\* ensure_span_break_at(from) then ensure_span_break_at(to) with
\* 0 <= from < to <= length, get_span_boundaries(from, to) is exact: span
\* `start` begins at from and span `end - 1` ends at to, so the spans of
\* [start, end) cover exactly the positions [from, to), and set_text_format
\* leaves the format of every character outside the range as it was.
C29_BoundariesExactAfterBreaks ==
    \A before \in {CharFormats(spans)} :
       \A from \in Pos, to \in Pos :
          (from < to /\ to <= Len(text)) =>
             /\ \A s \in {ensure_span_break_at(
                            ensure_span_break_at(spans, from).spans,
                            to).spans} :
                   \A b \in {get_span_boundaries(s, from, to)} :
                      /\ b[1] < b[2]
                      /\ SumLengths(SubSeq(s, 1, b[1])) = from
                      /\ SumLengths(SubSeq(s, 1, b[2])) = to
             /\ \A fmt \in Formats :
                   \A after \in {CharFormats(
                                   set_text_format(text, spans, default_format,
                                                   from, to, fmt))} :
                      \A p \in 0 .. (Len(text) - 1) :
                         (p < from \/ p >= to) => after[p + 1] = before[p + 1]

\* a range strictly inside one span: both breaks split, the range is the
\* middle span of the three, and the characters on both sides keep their
\* format while the range takes the new one
C29_Witness ==
    /\ Len(spans) = 1
    /\ Len(text) = 3
    /\ \A s \in {ensure_span_break_at(
                   ensure_span_break_at(spans, 1).spans, 2).spans} :
          /\ Len(s) = 3
          /\ get_span_boundaries(s, 1, 2) = <<1, 2>>
    /\ Len(set_text_format(text, spans, default_format, 1, 2, FmtHeading)) = 3


\* C30: ensure_span_break_at(pos) changes structure only: if pos is strictly
\* inside a span the span count grows by exactly one, the returned index is
\* the covering span's index + 1 and that span starts exactly at pos; if pos
\* is already a span start the list is untouched and its index is returned;
\* in both cases the total span length and the format of every character
\* position are unchanged.
C30_BreakChangesStructureOnly ==
    \A before \in {CharFormats(spans)} :
       \A pos \in Pos :
          \A r \in {ensure_span_break_at(spans, pos)},
             q \in {resolve_position_as_span(spans, pos)} :
             /\ SumLengths(r.spans) = SumLengths(spans)
             /\ CharFormats(r.spans) = before
             /\ (IsSome(q) /\ Unwrap(q)[2] > 0) =>
                   /\ Len(r.spans) = Len(spans) + 1
                   /\ r.ret = Some(Unwrap(q)[1] + 1)
                   /\ SumLengths(SubSeq(r.spans, 1, Unwrap(q)[1] + 1)) = pos
             /\ (IsSome(q) /\ Unwrap(q)[2] = 0) =>
                   /\ r.spans = spans
                   /\ r.ret = Some(Unwrap(q)[1])
             /\ ~IsSome(q) => r.spans = spans

\* a bold span is broken one character after its start and both halves are
\* bold, and a break at a position that is already a span start changes
\* nothing
C30_Witness ==
    /\ Len(spans) >= 2
    /\ \E i \in 1 .. Len(spans), pos \in Pos :
          /\ spans[i].bold
          /\ resolve_position_as_span(spans, pos) = Some(<<i - 1, 1>>)
          /\ Len(ensure_span_break_at(spans, pos).spans) = Len(spans) + 1
          /\ ensure_span_break_at(spans, pos).spans[i + 1].bold
    /\ \E pos \in 1 .. MaxLen :
          /\ IsSome(resolve_position_as_span(spans, pos))
          /\ ensure_span_break_at(spans, pos).spans = spans


\* C31: normalize length reconciliation: if the span total is shorter than
\* the buffer, exactly the missing trailing characters receive the default
\* format and all earlier characters keep their format; if the span total is
\* longer, only trailing spans are shrunk or removed, so every character
\* position below the buffer length keeps the format it had.
C31_ReconcileKeepsFormats ==
    \A before \in {CharFormats(spans)},
       after \in {CharFormats(normalize(text, spans, default_format))} :
       /\ Len(after) = Len(text)
       /\ \A p \in 0 .. (Len(text) - 1) :
             IF p < Len(before)
             THEN after[p + 1] = before[p + 1]
             ELSE after[p + 1] = Resolved(default_format)

\* spans shorter than the buffer under a default format that sets a field,
\* so that the padded characters differ from the formatted ones before them
C31_Witness ==
    /\ default_format = FmtBullet
    /\ SumLengths(spans) >= 1
    /\ SumLengths(spans) < Len(text)
    /\ spans[1].bold
    /\ \A after \in {CharFormats(normalize(text, spans, default_format))} :
          /\ after[1].bold /\ ~after[1].bullet
          /\ after[Len(text)].bullet /\ ~after[Len(text)].bold

\* spans longer than the buffer: the excess is cut from the end
C31_WitnessLonger ==
    /\ Len(text) >= 1
    /\ SumLengths(spans) > Len(text)
    /\ Len(spans) >= 2
    /\ SumLengths(normalize(text, spans, default_format)) = Len(text)


\* C32: normalize's removal of leading zero-length spans stops when only one
\* span remains: on an empty buffer whose span list is a single zero-length
\* span, normalize keeps that span, so its format (which may differ from the
\* current default format) is preserved.
C32_SoleEmptySpanKept ==
    (Len(text) = 0 /\ Len(spans) = 1 /\ spans[1].span_length = 0) =>
       normalize(text, spans, default_format) = spans

\* C36: normalize is a no-op on any table that already satisfies invariants
\* 1-4 (including an empty buffer with one zero-length span), whatever the
\* current default format is: the span list, buffer and default format are
\* unchanged.
C36_NormalizeNoOpWhenNormalized ==
    [][(Normalized(text, spans) /\ Normalize) => UNCHANGED vars]_vars


\* C33: set_text_format confines its effect to the range: for
\* 0 <= from < to with from < length, every character at a position outside
\* [from, to) has the same format after the call as before, and the buffer
\* and the default format are unchanged.
C33_SetConfinedToRange ==
    /\ [](\A before \in {CharFormats(spans)} :
            \A from \in Pos, to \in Pos, fmt \in Formats :
               (from < to /\ from < Len(text)) =>
                  \A after \in {CharFormats(
                                  set_text_format(text, spans, default_format,
                                                  from, to, fmt))} :
                     /\ Len(after) = Len(before)
                     /\ \A p \in 0 .. (Len(text) - 1) :
                           (p < from \/ p >= to) =>
                              after[p + 1] = before[p + 1])
    /\ [][\A from \in Pos, to \in Pos, fmt \in Formats :
             (from < to /\ from < Len(text)
                /\ (text' # text \/ default_format' # default_format))
                => ~SetTextFormat(from, to, fmt)]_vars

\* one plain span of three characters whose middle character alone is made a
\* heading: the characters on both sides stay plain
C33_Witness ==
    /\ Len(text) = 3
    /\ Len(spans) = 1
    /\ ~spans[1].bold
    /\ \A after \in {CharFormats(set_text_format(text, spans, default_format,
                                                 1, 2, FmtHeading))} :
          /\ ~after[1].bold
          /\ after[2].bold
          /\ ~after[3].bold

\* C34: set_text_format on an empty range (from = to, for any position
\* including 0 and the buffer length) changes no character's format: the
\* span list after the call equals the span list before it.
C34_SetEmptyRangeNoOp ==
    \A pos \in Pos, fmt \in Formats :
       set_text_format(text, spans, default_format, pos, pos, fmt) = spans


(***************************************************************************)
(* A property slot as a state machine: any property, then any calls of     *)
(* set and set_attributes.                                                 *)
(***************************************************************************)
InitProperty ==
    /\ property \in Properties
    /\ \E table \in {from_str_and_format(<<>>, TextFormat_default)} :
          /\ text = table.text
          /\ spans = table.spans
          /\ default_format = table.default_format
    /\ panicked = FALSE

PropertySet(new_value) ==
    /\ property' = property_set(property, new_value).self
    /\ UNCHANGED <<text, spans, default_format, panicked>>

PropertySetAttributes(new_attributes) ==
    /\ property' = set_attributes(property, new_attributes)
    /\ UNCHANGED <<text, spans, default_format, panicked>>

NextProperty ==
    \/ \E new_value \in Values : PropertySet(new_value)
    \/ \E new_attributes \in SUBSET Attributes :
          PropertySetAttributes(new_attributes)

SpecProperty == InitProperty /\ [][NextProperty]_vars

\* C38: property write protection is consistent: whenever is_overwritable()
\* is false for a Property (ReadOnly attribute set, or a Virtual property
\* without a setter), set() neither changes a stored value nor returns a
\* setter executable to run; and set() never changes the property's
\* attributes.
C38_WriteProtectionConsistent ==
    \A new_value \in Values :
       \A r \in {property_set(property, new_value)} :
          /\ property_attributes(r.self) = property_attributes(property)
          /\ ~is_overwritable(property) =>
                /\ r.self = property
                /\ r.ret = None


\* C35: replace_text preserves the styling of untouched text: for every
\* from <= to (pure insertion from = to included, at position 0 as well),
\* each old character at a position p < min(from, len) keeps its format at
\* position p, and each old character at a position p >= to keeps its format
\* at position p - (min(to, len) - min(from, len)) + |w|.
C35_ReplaceKeepsUntouchedStyling ==
    \A before \in {CharFormats(spans)} :
       \A from \in Pos, to \in Pos, w \in Words :
          from <= to =>
             \A after \in {CharFormats(
                             replace_text(text, spans, default_format,
                                          from, to, w).spans)} :
                \A p \in 0 .. (Len(text) - 1) :
                   /\ p < Min(from, Len(text)) =>
                         /\ p + 1 <= Len(after)
                         /\ after[p + 1] = before[p + 1]
                   /\ p >= to =>
                         \A q \in {p - (Min(to, Len(text))
                                        - Min(from, Len(text))) + Len(w)} :
                            /\ q + 1 <= Len(after)
                            /\ after[q + 1] = before[p + 1]


\* C37: when the span lengths already add up to a non-zero buffer length,
\* normalize changes only the partition into spans: every character of the
\* buffer has the same format before and after the call.
C37_NormalizeChangesOnlyPartition ==
    (SumLengths(spans) = Len(text) /\ Len(text) > 0) =>
       CharFormats(normalize(text, spans, default_format)) = CharFormats(spans)

\* a table of three spans, a null-length one between two of different
\* formats, whose lengths add up to the buffer length: normalize removes the
\* middle span
C37_Witness ==
    /\ Len(text) = 2
    /\ Len(spans) = 3
    /\ spans[1].span_length = 1
    /\ spans[2].span_length = 0
    /\ spans[3].span_length = 1
    /\ spans[1].bold /\ ~spans[3].bold
    /\ Len(normalize(text, spans, default_format)) = 2

====
